---- MODULE Spec2Model ----
(***************************************************************************)
(* IEEE 738 conductor rating (src/src/ieee738_us.rs, driver src/src/main.rs)*)
(*                                                                         *)
(* The program computes with f64.  TLC has only 32-bit integers, so the    *)
(* model computes with a binary floating-point format of the same shape    *)
(* as f64 and a narrower significand and exponent: Prec significand bits   *)
(* (f64: 53), largest exponent EMax (f64: 1023), smallest normal exponent  *)
(* 1 - EMax (f64: -1022), gradual underflow, round to nearest (ties to     *)
(* even), overflow to infinity, NaN.  Every arithmetic operation of the    *)
(* source is one rounded operation of the model, in the source's order.    *)
(* A value is a record [k, m, e]: k = "fin" stands for m * 2^e, k = "inf"  *)
(* for the infinity of sign m, k = "nan" for NaN.  The two zeros have      *)
(* m = 0: e = 0 is +0.0 and e = -1 is -0.0.                                *)
(***************************************************************************)
EXTENDS Integers, Sequences, FiniteSets, TLC

\* Significand bits of the floating-point format (f64: 53).
Prec == 10
\* Largest binary exponent of a finite value (f64: 1023).
EMax == 40

----------------------------------------------------------------------------
(* The floating-point format *)

\* exponent of the last significand bit of the smallest values (subnormals)
QExp == (1 - EMax) - Prec + 1
\* exponent of the last significand bit of the largest values
TopExp == EMax - Prec + 1

Pow2(i) == 2 ^ i

\* number of bits of a natural number below 2^31 (0 for 0), eight bits at a time
RECURSIVE BitLen(_)
BitLen(a) ==
    IF a >= 256 THEN 8 + BitLen(a \div 256)
    ELSE IF a < 16
         THEN IF a < 4 THEN (IF a < 2 THEN a ELSE 2) ELSE (IF a < 8 THEN 3 ELSE 4)
    ELSE IF a < 64 THEN (IF a < 32 THEN 5 ELSE 6) ELSE (IF a < 128 THEN 7 ELSE 8)

AbsI(a) == IF a < 0 THEN -a ELSE a
SgnI(a) == IF a < 0 THEN -1 ELSE IF a > 0 THEN 1 ELSE 0
MaxI(a, b) == IF a < b THEN b ELSE a
MinI(a, b) == IF a < b THEN a ELSE b

Fin(m, e) == [k |-> "fin", m |-> m, e |-> e]
\* +0.0
Zero == Fin(0, 0)
\* the zero of sign s: -0.0 for s < 0
ZeroOf(s) == Fin(0, IF s < 0 THEN -1 ELSE 0)
Inf(s) == [k |-> "inf", m |-> s, e |-> 0]
NaN == [k |-> "nan", m |-> 0, e |-> 0]
IsNaN(x) == x.k = "nan"
IsInf(x) == x.k = "inf"
IsFin(x) == x.k = "fin"
\* the sign bit of a value that is not NaN, as -1 or 1
SignOf(x) == IF x.m < 0 \/ (x.m = 0 /\ x.e < 0) THEN -1 ELSE 1

\* the finite value s * q * 2^e, q of at most Prec bits, or the infinity of sign s;
\* a value rounded to nothing is the zero of sign s
Pack(s, q, e) ==
    IF q = 0 THEN ZeroOf(s)
    ELSE IF q = Pow2(Prec)
         THEN (IF e + 1 > TopExp THEN Inf(s) ELSE Fin(s * Pow2(Prec - 1), e + 1))
    ELSE IF e > TopExp THEN Inf(s)
    ELSE Fin(s * q, e)

\* q and the remainder r of the bits dropped, half their weight: to nearest, ties to even
RoundQuot(s, q, r, half, e, sticky) ==
    Pack(s, IF r > half \/ (r = half /\ (sticky \/ q % 2 = 1)) THEN q + 1 ELSE q, e)

\* a of len bits, moved by sh bits to the precision of the format at exponent e
RoundBy(s, a, e, sticky, len, sh) ==
    IF sh <= 0
    THEN \* exact: shift left to the normal form, not below QExp
         Pack(s, a * Pow2(MinI(Prec - len, e - QExp)), e - MinI(Prec - len, e - QExp))
    ELSE IF sh > 30 THEN ZeroOf(s)
    ELSE RoundQuot(s, a \div Pow2(sh), a % Pow2(sh), Pow2(sh - 1), e + sh, sticky)

(* The value s * (a + f) * 2^e, a a natural number of at most 30 bits and   *)
(* 0 <= f < 1 with f > 0 iff sticky, rounded to the format: to nearest,     *)
(* ties to even; beyond the largest finite value, infinity.  A caller that  *)
(* sets sticky passes at least Prec + 1 bits in a.  For a = 0 the result   *)
(* is the zero of sign s, +0.0 for s = 0.                                   *)
RoundTo(s, a, e, sticky) ==
    IF a = 0 THEN ZeroOf(s)
    ELSE RoundBy(s, a, e, sticky, BitLen(a), MaxI(BitLen(a) - Prec, QExp - e))

\* The largest finite value (f64::MAX).
FMax == Fin(Pow2(Prec) - 1, TopExp)

\* Position of a value in the order of the format (NaN has none); the two
\* zeros have the same.
Key(x) ==
    IF x.k = "inf" THEN x.m * ((TopExp - QExp + 2) * Pow2(Prec - 1) + 1)
    ELSE IF x.m = 0 THEN 0
    ELSE SgnI(x.m) * ((x.e - QExp) * Pow2(Prec - 1) + AbsI(x.m))

\* the comparisons of f64: each is false when an operand is NaN
Lt(x, y) == ~IsNaN(x) /\ ~IsNaN(y) /\ Key(x) < Key(y)
Le(x, y) == ~IsNaN(x) /\ ~IsNaN(y) /\ Key(x) <= Key(y)
Gt(x, y) == Lt(y, x)
Ge(x, y) == Le(y, x)

Neg(x) ==
    IF IsNaN(x) THEN NaN
    ELSE IF x.m = 0 THEN ZeroOf(-SignOf(x))
    ELSE [x EXCEPT !.m = -x.m]
Abs(x) ==
    IF IsNaN(x) THEN NaN
    ELSE IF x.m = 0 THEN Zero
    ELSE [x EXCEPT !.m = AbsI(x.m)]

\* x + y; a sum that is exactly zero is +0.0, but for -0.0 + -0.0
Add(x, y) ==
    IF IsNaN(x) \/ IsNaN(y) THEN NaN
    ELSE IF IsInf(x) THEN (IF IsInf(y) /\ y.m # x.m THEN NaN ELSE x)
    ELSE IF IsInf(y) THEN y
    ELSE IF x.m = 0 THEN (IF y.m = 0 /\ SignOf(x) > 0 THEN Zero ELSE y)
    ELSE IF y.m = 0 THEN x
    ELSE
    LET hi  == IF x.e >= y.e THEN x ELSE y
        lo  == IF x.e >= y.e THEN y ELSE x
        d   == hi.e - lo.e
        \* the exact sum in units of 2^lo.e or, when lo is below a quarter of
        \* hi's last place, hi in units of 2^(hi.e - 2) with lo as the sticky bit
        sum == IF d <= Prec + 2 THEN hi.m * Pow2(d) + lo.m
               ELSE IF SgnI(hi.m) = SgnI(lo.m) THEN 4 * hi.m
               ELSE 4 * hi.m - SgnI(hi.m)
    IN  RoundTo(SgnI(sum), AbsI(sum), IF d <= Prec + 2 THEN lo.e ELSE hi.e - 2, d > Prec + 2)

\* x - y
Sub(x, y) == Add(x, Neg(y))

\* x * y; the sign of the result, a zero included, is the product of the signs
Mul(x, y) ==
    IF IsNaN(x) \/ IsNaN(y) THEN NaN
    ELSE IF IsInf(x) \/ IsInf(y)
         THEN (IF x.m = 0 \/ y.m = 0 THEN NaN ELSE Inf(SignOf(x) * SignOf(y)))
    ELSE RoundTo(SignOf(x) * SignOf(y), AbsI(x.m) * AbsI(y.m), x.e + y.e, FALSE)

\* sg * (a / b) * 2^e for naturals a and b, from the quotient of a * 2^s by b
DivBy(sg, a, b, e, s) ==
    RoundTo(sg, (a * Pow2(s)) \div b, e - s, (a * Pow2(s)) % b # 0)

\* x / y; the sign of the result, a zero or an infinity included, is the
\* product of the signs, those of a zero dividend and of a zero divisor included
Div(x, y) ==
    IF IsNaN(x) \/ IsNaN(y) THEN NaN
    ELSE IF IsInf(x) THEN (IF IsInf(y) THEN NaN ELSE Inf(SignOf(x) * SignOf(y)))
    ELSE IF y.m = 0 THEN (IF x.m = 0 THEN NaN ELSE Inf(SignOf(x) * SignOf(y)))
    ELSE IF IsInf(y) \/ x.m = 0 THEN ZeroOf(SignOf(x) * SignOf(y))
    ELSE
    DivBy(SgnI(x.m) * SgnI(y.m), AbsI(x.m), AbsI(y.m), x.e - y.e,
               Prec + 2 + BitLen(AbsI(y.m)) - BitLen(AbsI(x.m)))

\* the integer square root of n, lo * lo <= n < hi * hi
RECURSIVE ISqrtIn(_, _, _)
ISqrtIn(n, lo, hi) ==
    IF hi - lo <= 1 THEN lo
    ELSE LET mid == (lo + hi) \div 2
         IN  IF mid * mid <= n THEN ISqrtIn(n, mid, hi) ELSE ISqrtIn(n, lo, mid)

ISqrt(n) ==
    LET h == (BitLen(n) + 1) \div 2
    IN  IF n = 0 THEN 0 ELSE ISqrtIn(n, Pow2(h - 1), Pow2(h))

\* x.powf(0.5); of either zero, +0.0
Sqrt(x) ==
    IF IsNaN(x) THEN NaN
    \* powf(0.5) of either infinity is +infinity
    ELSE IF IsInf(x) THEN Inf(1)
    ELSE IF x.m < 0 THEN NaN
    ELSE IF x.m = 0 THEN Zero
    ELSE
    LET s0 == 2 * Prec + 2 - BitLen(x.m)
        s  == IF (x.e - s0) % 2 = 0 THEN s0 ELSE s0 + 1
        n  == x.m * Pow2(s)
        r  == ISqrt(n)
    IN  RoundTo(1, r, (x.e - s) \div 2, r * r # n)

\* f64::max: the other operand when one is NaN; the two zeros compare equal
\* and of equal operands the first is returned
Max(x, y) ==
    IF IsNaN(x) THEN y
    ELSE IF IsNaN(y) THEN x
    ELSE IF Lt(x, y) THEN y ELSE x

\* The value n * 2^e as a value of the format; literals are written with up
\* to 24 bits and rounded to Prec.
Lit(n, e) == RoundTo(SgnI(n), AbsI(n), e, FALSE)
\* an integer as a value of the format
FInt(n) == Lit(n, 0)

----------------------------------------------------------------------------
(* powf and powi.  x.powf(num / den) is the power x^(num / den) rounded to  *)
(* the format: the largest r with (r * 2^g)^den <= x^num is found by        *)
(* bisection, the two sides compared as natural numbers of any length, and  *)
(* r is rounded with one more bit below it that says whether the rest is    *)
(* not zero.  A natural number of any length is the sequence of its digits  *)
(* in base 2^19, the lowest first and the highest not 0.  The exponents 0.5 *)
(* and 2 are the exact square root and square.                              *)

\* a * k + c for the digits a, 0 <= k < 2^12, 0 <= c < 2^12
RECURSIVE BigMul(_, _, _)
BigMul(a, k, c) ==
    IF a = <<>> THEN (IF c = 0 THEN <<>> ELSE <<c>>)
    ELSE <<(a[1] * k + c) % 524288>> \o BigMul(Tail(a), k, (a[1] * k + c) \div 524288)

\* k^n * 2^s for 1 <= k < 2^12, n >= 0 and s >= 0
RECURSIVE BigPow(_, _, _)
BigPow(k, n, s) ==
    IF n > 0 THEN BigMul(BigPow(k, n - 1, s), k, 0)
    ELSE IF s >= 19 THEN <<0>> \o BigPow(k, 0, s - 19)
    ELSE <<Pow2(s)>>

\* a <= b for the digits a and b, those of the same length compared from
\* digit i down
RECURSIVE BigLe(_, _, _)
BigLe(a, b, i) ==
    IF Len(a) # Len(b) THEN Len(a) < Len(b)
    ELSE i = 0 \/ a[i] < b[i] \/ (a[i] = b[i] /\ BigLe(a, b, i - 1))

\* 2 r + t for the largest r, lo <= r < hi, with r^den * 2^s <= X, given
\* lo^den * 2^s <= X; t = 0 when the two are equal and 1 when not
RECURSIVE PowRoot(_, _, _, _, _)
PowRoot(X, den, s, lo, hi) ==
    IF hi - lo <= 1 THEN 2 * lo + (IF BigPow(lo, den, s) = X THEN 0 ELSE 1)
    ELSE IF BigLe(BigPow((lo + hi) \div 2, den, s), X, Len(X))
         THEN PowRoot(X, den, s, (lo + hi) \div 2, hi)
         ELSE PowRoot(X, den, s, lo, (lo + hi) \div 2)

\* (m * 2^e)^(num / den) for m > 0 and en = e * num, given that it is in
\* [2^(g + Prec), 2^(g + Prec + 2)): m^num * 2^en against r^den * 2^(g * den)
PowfAt(m, en, num, den, g) ==
    RoundTo(1, PowRoot(BigPow(m, num, MaxI(en - g * den, 0)), den, MaxI(g * den - en, 0),
                       Pow2(Prec), Pow2(Prec + 2)),
            g - 1, FALSE)

\* x.powf(num / den), 0 < num / den < 2 or num / den = 2
Powf(x, num, den) ==
    IF IsNaN(x) THEN NaN
    ELSE IF IsInf(x) THEN Inf(1)
    ELSE IF x.m = 0 THEN Zero
    ELSE IF num = 2 /\ den = 1 THEN Mul(x, x)
    ELSE IF x.m < 0 THEN NaN
    ELSE IF num = 1 /\ den = 2 THEN Sqrt(x)
    \* x >= 2^(BitLen(x.m) - 1 + x.e), and x^num is less than 2^num times the
    \* power of that bound
    ELSE PowfAt(x.m, x.e * num, num, den,
                (((BitLen(x.m) - 1 + x.e) * num) \div den) - Prec)

\* x.powi(2) and x.powi(4): repeated multiplication
Powi2(x) == Mul(x, x)
Powi4(x) == Mul(Mul(x, x), Mul(x, x))

\* (a * 2^k) % y, sixteen bits at a time when y is below 2^15 and one if not
RECURSIVE ShiftMod(_, _, _)
ShiftMod(a, k, y) ==
    IF k = 0 THEN a % y
    ELSE IF k >= 16 /\ y < 32768 THEN ShiftMod(((a % y) * 65536) % y, k - 16, y)
    ELSE ShiftMod((2 * a) % y, k - 1, y)

\* x % y of f64 (fmod): the remainder of the truncated division, exact, with
\* the sign of x also when it is zero
Fmod(x, y) ==
    IF IsNaN(x) \/ IsNaN(y) \/ IsInf(x) THEN NaN
    ELSE IF IsInf(y) THEN x
    ELSE IF y.m = 0 THEN NaN
    ELSE IF Lt(Abs(x), Abs(y)) THEN x
    ELSE LET q == MinI(x.e, y.e)
             Y == AbsI(y.m) * Pow2(y.e - q)
         IN  RoundTo(SgnI(x.m), ShiftMod(AbsI(x.m), x.e - q, Y), q, FALSE)

\* the integer a finite integral value stands for
ToInt(x) == IF x.e >= 0 THEN x.m * Pow2(x.e) ELSE x.m \div Pow2(-x.e)

----------------------------------------------------------------------------
(* sin, cos, tan, asin, acos and atan of an angle in radians: the function  *)
(* of the operand, rounded to the format.  The sine and the cosine are      *)
(* computed with 45 fraction bits, a number below 2^15 being four digits in *)
(* base 2^15: the operand times 4 / pi gives the octant and the angle       *)
(* within it, and the two are the sums of their series.  The tangent is     *)
(* the quotient of the two.  An inverse function is the largest angle, on a *)
(* grid finer than the format, whose sine, cosine or tangent is not beyond  *)
(* the operand; the search starts from an approximation computed with 24    *)
(* fraction bits.                                                           *)

\* a * k + b + c for the digits a and b, 0 <= k < 2^15, 0 <= c < 2^15
RECURSIVE BigMac(_, _, _, _)
BigMac(a, k, b, c) ==
    IF a = <<>> THEN (IF c = 0 THEN b ELSE BigMac(<<c>>, 1, b, 0))
    ELSE IF b = <<>>
         THEN <<(a[1] * k + c) % 32768>> \o BigMac(Tail(a), k, b, (a[1] * k + c) \div 32768)
    ELSE <<(a[1] * k + b[1] + c) % 32768>>
         \o BigMac(Tail(a), k, Tail(b), (a[1] * k + b[1] + c) \div 32768)

\* a - b - c for digits a and b of one length, a >= b + c, c = 0 or 1
RECURSIVE BigSub(_, _, _)
BigSub(a, b, c) ==
    IF a = <<>> THEN <<>>
    ELSE <<(a[1] - b[1] - c) % 32768>>
         \o BigSub(Tail(a), Tail(b), IF a[1] - b[1] - c < 0 THEN 1 ELSE 0)

\* a * b for the digits a and b; the digits the result lacks are 0
RECURSIVE BigTimes(_, _)
BigTimes(a, b) ==
    IF b = <<>> THEN <<>>
    ELSE IF b[1] = 0 THEN <<0>> \o BigTimes(a, Tail(b))
    ELSE BigMac(a, b[1], <<0>> \o BigTimes(a, Tail(b)), 0)

\* the i lowest digits of the quotient of r * 2^(15 i) + a by k, 0 <= r < k < 2^16
RECURSIVE BigDiv(_, _, _, _)
BigDiv(a, k, i, r) ==
    IF i = 0 THEN <<>>
    ELSE BigDiv(a, k, i - 1, (r * 32768 + a[i]) % k) \o <<(r * 32768 + a[i]) \div k>>

\* n digits of a from digit lo + 1 up, 0 where a has none
Digits(a, lo, n) == [i \in 1..n |-> IF lo + i <= Len(a) THEN a[lo + i] ELSE 0]

\* a * 2^j for the digits a
BigShl(a, j) == [i \in 1..(j \div 15) |-> 0] \o BigMac(a, Pow2(j % 15), <<>>, 0)

\* s + t - t z / (k (k + 1)) + t z^2 / (k (k + 1) (k + 2) (k + 3)) - ... with 45
\* fraction bits, to the last term that is not 0, the first sign + when k is 1
\* or 2 beyond a multiple of 4: for z = u^2, t = 1 and s = 0, cos u from k = 1
\* and (sin u) / u from k = 2
RECURSIVE Series(_, _, _, _)
Series(z, k, t, s) ==
    IF t = <<0, 0, 0, 0>> THEN s
    ELSE Series(z, k + 2, BigDiv(Digits(BigTimes(z, t), 3, 4), k * (k + 1), 4, 0),
                IF ((k + 1) \div 2) % 2 = 1 THEN BigMac(s, 1, t, 0) ELSE BigSub(s, t, 0))

\* <<sign, magnitude>> of the sine (w = "sin") or cosine (w = "cos") of the
\* angle t, 0 <= t <= pi / 4, counted from the start of octant n when n is
\* even and back from its end when n is odd
TrigAt(w, n, t) ==
    <<IF w = "sin" THEN (IF n < 4 THEN 1 ELSE -1) ELSE (IF n \in {0, 1, 6, 7} THEN 1 ELSE -1),
      IF (n % 4 \in {1, 2}) = (w = "sin")
      THEN Series(Digits(BigTimes(t, t), 3, 4), 1, <<0, 0, 0, 1>>, <<0, 0, 0, 0>>)
      ELSE Digits(BigTimes(t, Series(Digits(BigTimes(t, t), 3, 4), 2, <<0, 0, 0, 1>>,
                                     <<0, 0, 0, 0>>)), 3, 4)>>

\* the same for the angle whose multiple of 4 / pi is Y with d fraction
\* digits: the fraction of Y, or what it leaves of 1, times pi / 4, which is
\* <<17453, 30376, 25735, 0>> with 45 fraction bits
TrigOct(w, Y, d) ==
    TrigAt(w, Digits(Y, d, 1)[1] % 8,
           Digits(BigTimes(IF Digits(Y, d, 1)[1] % 2 = 0 THEN Digits(Y, d - 3, 3) \o <<0>>
                           ELSE BigSub(<<0, 0, 0, 1>>, Digits(Y, d - 3, 3) \o <<0>>, 0),
                           <<17453, 30376, 25735, 0>>), 3, 4))

\* the same for the angle m * 2^e, 0 <= m < 2^15: 4 / pi with 135 fraction
\* bits, times m, times 2^e
Trig(w, m, e) ==
    TrigOct(w, BigMac(BigMac(<<16603, 27067, 18388, 15038, 8130, 677, 5009, 16823, 8953, 1>>,
                             m, <<>>, 0), Pow2(e % 15), <<>>, 0), 9 - (e \div 15))

\* s times the sine or cosine q as a value of the format, from its three
\* highest digits
FromTrig(s, q) ==
    RoundTo(s * q[1], q[2][2] + q[2][3] * 32768 + q[2][4] * 1073741824, -30, TRUE)

\* x.sin(); below 2^-7 the sine is less than x by less than a quarter of the
\* spacing of the format below x
Sin(x) ==
    IF ~IsFin(x) THEN NaN
    ELSE IF x.m = 0 \/ BitLen(AbsI(x.m)) + x.e <= -7 THEN x
    ELSE FromTrig(SgnI(x.m), Trig("sin", AbsI(x.m), x.e))

\* x.cos()
Cos(x) ==
    IF ~IsFin(x) THEN NaN
    ELSE FromTrig(1, Trig("cos", AbsI(x.m), x.e))

\* the largest r, lo <= r < hi, with D * r <= X, given D * lo <= X
RECURSIVE QuotRoot(_, _, _, _)
QuotRoot(X, D, lo, hi) ==
    IF hi - lo <= 1 THEN lo
    ELSE IF BigLe(Digits(BigMac(D, (lo + hi) \div 2, <<>>, 0), 0, 8), X, 8)
         THEN QuotRoot(X, D, (lo + hi) \div 2, hi)
         ELSE QuotRoot(X, D, lo, (lo + hi) \div 2)

\* s * S / C as a value of the format, given 2^11 <= (S / C) * 2^j < 2^13
TanAt(s, S, C, j) ==
    RoundTo(s, QuotRoot(Digits(BigShl(S, MaxI(j, 0)), 0, 8),
                        BigMac(C, Pow2(MaxI(-j, 0)), <<>>, 0), 2048, 8192),
            -j, TRUE)

\* s times the quotient of the sine qs by the cosine qc, placed by the
\* lengths of their three highest digits
TanOf(s, qs, qc) ==
    TanAt(s * qs[1] * qc[1], qs[2], qc[2],
          BitLen(qc[2][2] + qc[2][3] * 32768 + qc[2][4] * 1073741824)
          - BitLen(qs[2][2] + qs[2][3] * 32768 + qs[2][4] * 1073741824) + 12)

\* x.tan(); below 2^-7 the tangent is more than x by less than a quarter of
\* the spacing of the format
Tan(x) ==
    IF ~IsFin(x) THEN NaN
    ELSE IF x.m = 0 \/ BitLen(AbsI(x.m)) + x.e <= -7 THEN x
    ELSE TanOf(SgnI(x.m), Trig("sin", AbsI(x.m), x.e), Trig("cos", AbsI(x.m), x.e))

\* floor(a * b / 2^24), 0 <= a, b < 2^27
MulFix(a, b) ==
    (a \div 4096) * (b \div 4096)
    + ((a \div 4096) * (b % 4096) + (a % 4096) * (b \div 4096)) \div 4096

\* floor(a * 2^24 / b), 0 <= a, 0 < b < 2^25, a / b < 128: four steps of six
\* bits on the pair of quotient and remainder
DivFix(a, b) ==
    LET Step(p) == <<p[1] * 64 + (p[2] * 64) \div b, (p[2] * 64) % b>>
    IN  Step(Step(Step(Step(<<a \div b, a % b>>))))[1]

\* pi / 2, pi and 2 pi, times 2^24
PiFix == <<26353589, 52707179, 105414357>>

\* atan(t / 2^24) * 2^24 for 0 <= t <= 2^24 / 32, from t and t^2: t - t^3 / 3 + t^5 / 5
AtanLow(t, t2) == t - MulFix(t2, t) \div 3 + MulFix(MulFix(t2, t2), t) \div 5

\* atan(Y / 2^24) * 2^24, 0 <= Y <= 2^24: atan(a) + atan((Y - a) / (1 + a Y))
\* for the table point a = i / 16 nearest to Y, from the table of
\* atan(i / 16) * 2^24, i = 0..16
AtanFix(Y) ==
    LET i == (Y + 524288) \div 1048576
        d == Y - i * 1048576
        t == DivFix(AbsI(d), 16777216 + MulFix(i * 1048576, Y))
    IN  <<0, 1047214, 2086331, 3109623, 4110060, 5081565, 6019173, 6919099, 7778716,
          8596469, 9371741, 10104705, 10796157, 11447372, 12059966, 12635782,
          13176795>>[i + 1]
        + SgnI(d) * AtanLow(t, MulFix(t, t))

\* |x| * 2^24 for |x| <= 1
ToFix(x) ==
    IF x.e + 24 >= 0 THEN AbsI(x.m) * Pow2(x.e + 24)
    ELSE IF x.e + 24 < -30 THEN 0
    ELSE AbsI(x.m) \div Pow2(-(x.e + 24))

\* asin(Y / 2^24) * 2^24 for c = sqrt(1 - (Y / 2^24)^2) * 2^24: atan(Y / c), or
\* pi / 2 - atan(c / Y) when c < Y
AsinFrom(Y, c) ==
    (IF Y <= c THEN 0 ELSE PiFix[1])
    + (IF Y <= c THEN 1 ELSE -1) * AtanFix(DivFix(MinI(Y, c), MaxI(Y, c)))

\* asin(Y / 2^24) * 2^24, 0 <= Y <= 2^24, with sqrt(W / 2^24) * 2^24 for
\* W = 2^24 - Y^2 / 2^24 by one Newton step from the integer root of W * 2^24
AsinFix(Y) ==
    IF Y >= 16777216 THEN PiFix[1]
    ELSE AsinFrom(Y, (ISqrt((16777216 - MulFix(Y, Y)) * 16) * 1024
                      + DivFix(16777216 - MulFix(Y, Y),
                               ISqrt((16777216 - MulFix(Y, Y)) * 16) * 1024)) \div 2)

\* whether the angle with the sine qs and the cosine qc is not beyond the
\* asin, acos or atan of x: sin <= |x| = X / 2^45, cos >= x, or tan <= |x|
InvHolds(kind, x, X, qs, qc) ==
    IF kind = "asin" THEN BigLe(qs[2], X, 4)
    ELSE IF kind = "acos"
         THEN (IF qc[1] > 0 THEN x.m < 0 \/ BigLe(X, qc[2], 4)
               ELSE x.m < 0 /\ BigLe(qc[2], X, 4))
    ELSE qc[1] > 0
         /\ BigLe(Digits(BigShl(qs[2], MaxI(-x.e, 0)), 0, 8),
                  Digits(BigShl(BigMac(qc[2], AbsI(x.m), <<>>, 0), MaxI(x.e, 0)), 0, 8), 8)

\* the largest r whose angle r * 2^g is not beyond the asin, acos or atan of
\* x, from r up or down
RECURSIVE InvRoot(_, _, _, _, _)
InvRoot(kind, x, X, r, g) ==
    IF InvHolds(kind, x, X, Trig("sin", r + 1, g), Trig("cos", r + 1, g))
    THEN InvRoot(kind, x, X, r + 1, g)
    ELSE IF InvHolds(kind, x, X, Trig("sin", r, g), Trig("cos", r, g)) THEN r
    ELSE InvRoot(kind, x, X, r - 1, g)

\* s times the asin, acos or atan of x as a value of the format, searched
\* from the approximation v / 2^24 on the grid that gives v Prec + 2 bits,
\* with |x| * 2^45 for X
InvFrom(kind, s, x, v) ==
    RoundTo(s, InvRoot(kind, x,
                       IF x.e + 45 >= 0 THEN Digits(BigShl(<<AbsI(x.m)>>, x.e + 45), 0, 4)
                       ELSE <<AbsI(x.m) \div Pow2(-(x.e + 45)), 0, 0, 0>>,
                       v \div Pow2(BitLen(v) - Prec - 2), BitLen(v) - Prec - 26),
            BitLen(v) - Prec - 26, TRUE)

\* x.atan(); below 2^-7 the arc is less than x by less than a quarter of the
\* spacing of the format below x
Atan(x) ==
    IF IsNaN(x) THEN NaN
    ELSE IF IsInf(x) THEN RoundTo(x.m, PiFix[1], -24, TRUE)
    ELSE IF x.m = 0 \/ BitLen(AbsI(x.m)) + x.e <= -7 THEN x
    ELSE InvFrom("atan", SgnI(x.m), x,
                 IF Le(Abs(x), FInt(1)) THEN AtanFix(ToFix(x))
                 ELSE PiFix[1] - AtanFix(IF x.e + 9 > 30 THEN 0
                                         ELSE DivFix(512, AbsI(x.m)) \div Pow2(x.e + 9)))

\* x.asin(); below 2^-7 the arc is more than x by less than a quarter of the
\* spacing of the format
Asin(x) ==
    IF ~IsFin(x) \/ Gt(Abs(x), FInt(1)) THEN NaN
    ELSE IF x.m = 0 \/ BitLen(AbsI(x.m)) + x.e <= -7 THEN x
    ELSE IF Abs(x) = FInt(1) THEN RoundTo(SgnI(x.m), PiFix[1], -24, TRUE)
    ELSE InvFrom("asin", SgnI(x.m), x, AsinFix(ToFix(x)))

\* x.acos()
Acos(x) ==
    IF ~IsFin(x) \/ Gt(Abs(x), FInt(1)) THEN NaN
    ELSE IF x = FInt(1) THEN Zero
    ELSE IF x = FInt(-1) THEN RoundTo(1, PiFix[2], -24, TRUE)
    ELSE InvFrom("acos", 1, x, PiFix[1] - SgnI(x.m) * AsinFix(ToFix(x)))

\* std::f64::consts::PI and pi / 180.0
PiF == Lit(13176795, -22)
DegToRad == Div(PiF, FInt(180))

----------------------------------------------------------------------------
(* The heat-balance functions *)

\* the last statement of convective_heat_loss, from its intermediate values
qc_max(diameter, pf, kangle, nre, kf, dt) ==
    \* 1.825 * pf.powf(0.5) * diameter.powf(0.75) * dt.powf(1.25)
    Max(Mul(Mul(Mul(Lit(7654605, -22), Powf(pf, 1, 2)), Powf(diameter, 3, 4)),
            Powf(dt, 5, 4)),
    \* kangle * (1.01 + 1.35 * nre.powf(0.52)) * kf * dt
    Max(Mul(Mul(Mul(kangle, Add(Lit(4236247, -22),
                                Mul(Lit(11324621, -23), Powf(nre, 13, 25)))), kf), dt),
    \* kangle * 0.754 * nre.powf(0.6) * kf * dt
        Mul(Mul(Mul(Mul(kangle, Lit(12650021, -24)), Powf(nre, 3, 5)), kf), dt)))

\* nre, from uf and pf
qc_flow(wind_speed, diameter, uf, pf, kangle, kf, dt) ==
    qc_max(diameter, pf, kangle,
           \* diameter * pf * (wind_speed * 60.0 * 60.0) / uf
           Div(Mul(Mul(diameter, pf), Mul(Mul(wind_speed, FInt(60)), FInt(60))), uf),
           kf, dt)

\* kangle of the limited wind angle in radians
qc_kangle(wind_angle_rad) ==
    \* 1.194 - cos(a) + 0.194 * cos(2 a) + 0.368 * sin(2 a)
    Add(Add(Sub(Lit(5007999, -22), Cos(wind_angle_rad)),
            Mul(Lit(813695, -22), Cos(Mul(FInt(2), wind_angle_rad)))),
        Mul(Lit(12348031, -25), Sin(Mul(FInt(2), wind_angle_rad))))

\* uf, pf, kangle and kf, from the limited wind angle and tfilm
qc_film(ambient_temperature, wind_speed, elevation, conductor_temperature, diameter, wind_angle_deg_limited, tfilm) ==
    qc_flow(wind_speed, diameter,
            \* 0.00353 * (tfilm + 273.15).powf(1.5) / (tfilm + 383.4)
            Div(Mul(Lit(15161235, -32), Powf(Add(tfilm, Lit(8950579, -15)), 3, 2)),
                Add(tfilm, Lit(12563251, -15))),
            \* (0.080695 - 2.901e-6 * elevation + 3.7e-11 * elevation.powi(2))
            \*     / (1.0 + 0.00367 * tfilm)
            Div(Add(Sub(Lit(2707675, -25), Mul(Lit(12758733, -42), elevation)),
                    Mul(Lit(2666131, -56), Powi2(elevation))),
                Add(FInt(1), Mul(Lit(7881265, -31), tfilm))),
            \* wind_angle_rad = wind_angle_deg_limited * (pi / 180.0)
            qc_kangle(Mul(wind_angle_deg_limited, DegToRad)),
            \* 7.388e-3 + 2.279e-5 * tfilm - 1.343e-9 * tfilm.powi(2)
            Sub(Add(Lit(15865609, -31), Mul(Lit(12528935, -39), tfilm)),
                Mul(Lit(12096669, -53), Powi2(tfilm))),
            Sub(conductor_temperature, ambient_temperature))

\* 90.0 - ((wind_angle_deg % 180.0) - 90.0).abs()
wind_angle_limit(wind_angle_deg) ==
    Sub(FInt(90), Abs(Sub(Fmod(wind_angle_deg, FInt(180)), FInt(90))))

\* convective_heat_loss Qc (W/ft)
convective_heat_loss(ambient_temperature, wind_speed, wind_angle_deg, elevation, conductor_temperature, diameter) ==
    qc_film(ambient_temperature, wind_speed, elevation, conductor_temperature, diameter,
            wind_angle_limit(wind_angle_deg),
            \* (conductor_temperature + ambient_temperature) / 2.0
            Div(Add(conductor_temperature, ambient_temperature), FInt(2)))

\* radiated_heat_loss Qr (W/ft)
radiated_heat_loss(ambient_temperature, conductor_temperature, emissivity, diameter) ==
    Mul(Mul(Mul(Lit(13891535, -23), diameter), emissivity),
        Sub(Powi4(Div(Add(conductor_temperature, FInt(273)), FInt(100))),
            Powi4(Div(Add(ambient_temperature, FInt(273)), FInt(100)))))

\* the days of the months i to month - 1, from days_in_month
RECURSIVE DaySum(_, _)
DaySum(i, month) ==
    IF i >= month THEN 0
    ELSE <<31, 28, 31, 30, 31, 30, 31, 31, 30, 31, 30, 31>>[i] + DaySum(i + 1, month)

day_of_year(month, day_of_month) == day_of_month + DaySum(1, month)

\* qs = a + b hc + c hc^2 + d hc^3 + e hc^4 + f hc^5 + g hc^6, hc in degrees;
\* powi(3), powi(5) and powi(6) are the products of the squares hc, hc^2 and
\* hc^4 that the bits of the exponent select
solar_qs(k, hc_deg) ==
    Add(Add(Add(Add(Add(Add(k[1], Mul(k[2], hc_deg)), Mul(k[3], Powi2(hc_deg))),
                    Mul(k[4], Mul(hc_deg, Powi2(hc_deg)))),
                Mul(k[5], Powi4(hc_deg))),
            Mul(k[6], Mul(hc_deg, Powi4(hc_deg)))),
        Mul(k[7], Mul(Powi2(hc_deg), Powi4(hc_deg))))

\* qse = f64::max(qs, 0.0) * mult * ksolar, hc_deg = hc_rad * (180.0 / pi)
solar_qse(hc_rad, elevation, atmosphere_clear) ==
    Mul(Mul(Max(solar_qs(\* the coefficients (a, b, c, d, e, f, g)
                         IF atmosphere_clear
                         THEN <<Lit(-4114717, -20), Lit(6215539, -20), Lit(-11982959, -26),
                                Lit(1730335, -29), Lit(-9221879, -38), Lit(12703669, -46),
                                Lit(-13643385, -55)>>
                         ELSE <<Lit(10361609, -21), Lit(11079673, -23), Lit(4123437, -26),
                                Lit(-1578991, -29), Lit(13956981, -38), Lit(-14201363, -45),
                                Lit(11075883, -53)>>,
                         Mul(hc_rad, Div(FInt(180), PiF))),
                Zero),
            \* mult, by elevation
            IF Gt(elevation, FInt(15000)) THEN Lit(5452595, -22)
            ELSE IF Gt(elevation, FInt(10000)) THEN Lit(5, -2)
            ELSE IF Gt(elevation, FInt(5000)) THEN Lit(9646899, -23)
            ELSE FInt(1)),
        \* ksolar = 1.0 + 3.5e-5 * elevation - 1.0e-9 * elevation.powi(2)
        Sub(Add(FInt(1), Mul(Lit(9620727, -38), elevation)),
            Mul(Lit(9007199, -53), Powi2(elevation))))

\* theta = (hc_rad.cos() * (zc_rad - zl_rad).cos()).acos(), zc_rad = cc_rad + x.atan()
solar_theta(hc_rad, w_deg, x, line_azimuth_deg) ==
    Acos(Mul(Cos(hc_rad),
             Cos(Sub(Add(Mul(\* cc_deg, the solar azimuth constant
                             IF Le(FInt(-180), w_deg) /\ Lt(w_deg, Zero)
                             THEN (IF Ge(x, Zero) THEN Zero ELSE FInt(180))
                             ELSE (IF Lt(x, Zero) THEN FInt(180) ELSE FInt(360)),
                             DegToRad),
                         Atan(x)),
                     Mul(line_azimuth_deg, DegToRad)))))

\* qse and sin(theta), from the angles in radians
SolarFrom(latitude_rad, delta_rad, w_deg, w_rad, hc_rad, line_azimuth_deg, elevation, atmosphere_clear) ==
    [qse |-> solar_qse(hc_rad, elevation, atmosphere_clear),
     sin_theta |->
        Sin(solar_theta(hc_rad, w_deg,
                        \* x, the solar azimuth variable
                        Div(Sin(w_rad),
                            Sub(Mul(Sin(latitude_rad), Cos(w_rad)),
                                Mul(Cos(latitude_rad), Tan(delta_rad)))),
                        line_azimuth_deg))]

\* hc_rad, the solar altitude, from latitude_rad, delta_rad and w_rad
SolarAngles(latitude_rad, delta_rad, w_deg, w_rad, line_azimuth_deg, elevation, atmosphere_clear) ==
    SolarFrom(latitude_rad, delta_rad, w_deg, w_rad,
              Asin(Add(Mul(Mul(Cos(latitude_rad), Cos(delta_rad)), Cos(w_rad)),
                       Mul(Sin(latitude_rad), Sin(delta_rad)))),
              line_azimuth_deg, elevation, atmosphere_clear)

(* The solar geometry of solar_heat_gain (equations 16 to 20, 8 and 9): the *)
(* elevation-corrected heat flux qse and the sine of the angle of incidence *)
(* theta, every operation of the source one rounded operation.              *)
SolarGeometry(day, hour_of_day, latitude_deg, line_azimuth_deg, elevation, atmosphere_clear) ==
    SolarAngles(Mul(latitude_deg, DegToRad),
                \* p_rad = (((284.0 + day_of_year) / 365.0) * 360.0) * (pi / 180.0),
                \* delta_rad = (23.4583 * p_rad.sin()) * (pi / 180.0)
                Mul(Mul(Lit(12298905, -19),
                        Sin(Mul(Mul(Div(Add(FInt(284), FInt(day)), FInt(365)), FInt(360)),
                                DegToRad))),
                    DegToRad),
                \* w_deg = (hour_of_day - 12.0) * 15.0, w_rad = w_deg * (pi / 180.0)
                Mul(Sub(hour_of_day, FInt(12)), FInt(15)),
                Mul(Mul(Sub(hour_of_day, FInt(12)), FInt(15)), DegToRad),
                line_azimuth_deg, elevation, atmosphere_clear)

\* absorptivity * qse * (theta).sin() * diameter
solar_product(absorptivity, g, diameter) ==
    Mul(Mul(Mul(absorptivity, g.qse), g.sin_theta), diameter)

\* solar_heat_gain Qs (W/ft)
solar_heat_gain(solar_radiation, month, day_of_month, hour_of_day, latitude_deg, line_azimuth_deg, elevation, atmosphere_clear, absorptivity, diameter) ==
    IF Ge(solar_radiation, Zero)
    THEN Mul(Mul(absorptivity, solar_radiation), diameter)
    ELSE solar_product(absorptivity,
                       SolarGeometry(day_of_year(month, day_of_month), hour_of_day,
                                     latitude_deg, line_azimuth_deg, elevation,
                                     atmosphere_clear),
                       diameter)

\* adjust_r: resistance at conductor_temperature
adjust_r(conductor_temperature, t_low, t_high, r_low, r_high) ==
    LET ohms_per_c == Div(Sub(r_high, r_low), Sub(t_high, t_low))
    IN  Add(Mul(ohms_per_c, Sub(conductor_temperature, t_low)), r_low)

----------------------------------------------------------------------------
(* The four entry points as functions of their arguments.  a is the record  *)
(* of the environment and conductor arguments, which the searches pass on   *)
(* unchanged.                                                               *)

tr_qc(a, conductor_temperature) ==
    convective_heat_loss(a.ambient_temperature, a.wind_speed, a.wind_angle_deg, a.elevation,
                         conductor_temperature, a.diameter)
tr_qr(a, conductor_temperature) ==
    radiated_heat_loss(a.ambient_temperature, conductor_temperature, a.emissivity, a.diameter)
tr_qs(a) ==
    solar_heat_gain(a.solar_radiation, a.month, a.day_of_month, a.hour_of_day, a.latitude_deg,
                    a.line_azimuth_deg, a.elevation, a.atmosphere_clear, a.absorptivity,
                    a.diameter)
tr_r(a, conductor_temperature) ==
    adjust_r(conductor_temperature, a.t_low, a.t_high, a.r_low, a.r_high)

\* qc + qr - qs
NetLoss(qc, qr, qs) == Sub(Add(qc, qr), qs)

\* the square root taken without the clamp
RatingOf_unclamped(qc, qr, qs, r) == Powf(Div(NetLoss(qc, qr, qs), r), 1, 2)

\* the last two statements of thermal_rating: the clamp and the square root
RatingOf(qc, qr, qs, r) ==
    IF Lt(NetLoss(qc, qr, qs), Zero) THEN Zero
    ELSE Powf(Div(NetLoss(qc, qr, qs), r), 1, 2)

\* thermal_rating (A)
thermal_rating(a, conductor_temperature) ==
    IF Lt(conductor_temperature, a.ambient_temperature) THEN Zero
    ELSE RatingOf(tr_qc(a, conductor_temperature), tr_qr(a, conductor_temperature),
                  tr_qs(a), tr_r(a, conductor_temperature))

\* the iteration with the resistive heating taken away instead of added
EulerStep_cooling(a, final_temperature, current, time_step) ==
    Add(final_temperature,
        Div(Mul(Sub(Sub(Sub(tr_qs(a), Mul(tr_r(a, final_temperature), Powf(current, 2, 1))),
                        tr_qc(a, final_temperature)),
                    tr_qr(a, final_temperature)),
                time_step),
            a.heat_capacity))

\* one iteration of the loop of conductor_temperature_rise
EulerStep(a, final_temperature, current, time_step) ==
    LET qc == tr_qc(a, final_temperature)
        qr == tr_qr(a, final_temperature)
        qs == tr_qs(a)
        r  == tr_r(a, final_temperature)
        \* ((r * current.powf(2.0)) + qs - qc - qr) * time_step / heat_capacity
        delta_t == Div(Mul(Sub(Sub(Add(Mul(r, Powf(current, 2, 1)), qs), qc), qr), time_step),
                       a.heat_capacity)
    IN  Add(final_temperature, delta_t)

RECURSIVE EulerLoop(_, _, _, _, _)
EulerLoop(a, final_temperature, current, time_step, n) ==
    IF n <= 0 THEN final_temperature
    ELSE EulerLoop(a, EulerStep(a, final_temperature, current, time_step), current,
                   time_step, n - 1)

\* conductor_temperature_rise (C)
conductor_temperature_rise(a, conductor_temperature, current, time_step, steps) ==
    IF Lt(conductor_temperature, a.ambient_temperature) THEN Zero
    ELSE Sub(EulerLoop(a, conductor_temperature, current, time_step, steps),
             conductor_temperature)

----------------------------------------------------------------------------
(* The state: one call of an entry point, from its arguments to its result *)

VARIABLES
    op,                 \* the entry point called
    env,                \* its environment and conductor arguments
    arg,                \* its other arguments
    pc,                 \* the position in its body
    chained,            \* main: the current was computed by thermal_rating from arg.conductor_temperature
    terms,              \* thermal_rating: qc, qr, qs, r
    heat_evals,         \* number of evaluations of the heat-balance terms made by the body itself
    lower_bound, upper_bound, target_y,     \* the searches' locals
    n_grow, n_bisect,   \* iterations of the expansion loop and of the bisection loop
    final_temperature,  \* conductor_temperature_rise: the loop's temperature
    n_steps,            \* iterations of its loop
    result,             \* the value returned, when pc = "done"
    wind_angle_deg_limited  \* convective_heat_loss: the wind angle it computes with

vars == <<op, env, arg, pc, chained, terms, heat_evals, lower_bound, upper_bound, target_y,
          n_grow, n_bisect, final_temperature, n_steps, result, wind_angle_deg_limited>>

\* Largest step count the calls are made with.
MaxSteps == 3
\* The iteration counters stop counting here (a loop that spins counts no further).
MaxCount == 64

\* initial upper bounds of the two searches
CT_UPPER == 256
XR_UPPER == 4096

\* f64::MAX / 2.0
HalfMax == Div(FMax, FInt(2))

\* main.rs: the driver's environment and conductor
EnvDriver ==
    [solar_radiation |-> FInt(-1), month |-> 6, day_of_month |-> 10, hour_of_day |-> FInt(11),
     ambient_temperature |-> FInt(40), wind_speed |-> FInt(2), wind_angle_deg |-> FInt(90),
     latitude_deg |-> FInt(30), line_azimuth_deg |-> FInt(90), elevation |-> Zero,
     atmosphere_clear |-> TRUE,
     absorptivity |-> Lit(13421773, -24),   \* 0.8
     emissivity |-> Lit(13421773, -24),     \* 0.8
     diameter |-> Lit(6196385, -26),        \* 0.092333333
     t_low |-> FInt(25), t_high |-> FInt(75),
     r_low |-> Lit(12140423, -39),          \* 2.20833e-05
     r_high |-> Lit(7236381, -38),          \* 2.63258e-05
     heat_capacity |-> Lit(39121, -7)]      \* 305.6328

\* the driver's arguments with the air hotter than the first upper bound of the
\* temperature search
EnvHot == [EnvDriver EXCEPT !.ambient_temperature = FInt(300)]

\* the driver's arguments, the same with the solar radiation given, and none,
\* and the same with the hot air
Envs == {EnvDriver, [EnvDriver EXCEPT !.solar_radiation = Zero], EnvHot}

\* 2^-10 is below the spacing of the format at every temperature and current
\* of the calls
Tolerances == {FInt(1), Lit(1, -10), FInt(256), FInt(XR_UPPER)}
Temperatures == {FInt(25), FInt(40), FInt(42), FInt(100), FInt(300)}
Currents == {FInt(-1000), Zero, FInt(1000), FInt(2000), FInt(5000)}
TimeSteps == {FInt(60), FInt(6000)}

NoArg == [conductor_temperature |-> Zero, current |-> Zero, tolerance |-> Zero,
          conductor_temperature_max |-> Zero, time_step |-> Zero, steps |-> 0]

NoTerms == [qc |-> NaN, qr |-> NaN, qs |-> NaN, r |-> NaN]

Calls ==
    [op : {"thermal_rating"}, conductor_temperature : Temperatures, current : {Zero},
     tolerance : Tolerances, conductor_temperature_max : {Zero}, time_step : {Zero},
     steps : {0}]
    \cup
    [op : {"calculated_temperature"}, conductor_temperature : {Zero}, current : Currents,
     tolerance : Tolerances, conductor_temperature_max : {Zero}, time_step : {Zero},
     steps : {0}]
    \cup
    [op : {"conductor_temperature_rise"}, conductor_temperature : Temperatures,
     current : Currents, tolerance : {Zero}, conductor_temperature_max : {Zero},
     time_step : TimeSteps, steps : 0..MaxSteps]
    \cup
    [op : {"transient_rating"}, conductor_temperature : {FInt(25), FInt(100)},
     current : {Zero}, tolerance : Tolerances,
     conductor_temperature_max : {FInt(90), FInt(100), FInt(150), FInt(254)},
     time_step : TimeSteps, steps : {0, 1, MaxSteps}]

Init ==
    /\ env \in Envs
    /\ \E c \in Calls :
          /\ op = c.op
          /\ arg = [conductor_temperature |-> c.conductor_temperature,
                    current |-> c.current, tolerance |-> c.tolerance,
                    conductor_temperature_max |-> c.conductor_temperature_max,
                    time_step |-> c.time_step, steps |-> c.steps]
    /\ pc = "start"
    /\ chained = FALSE
    /\ terms = NoTerms
    /\ heat_evals = 0
    /\ lower_bound = Zero /\ upper_bound = Zero /\ target_y = Zero
    /\ n_grow = 0 /\ n_bisect = 0
    /\ final_temperature = Zero
    /\ n_steps = 0
    /\ result = NaN
    /\ wind_angle_deg_limited = NaN

Count(n) == IF n < MaxCount THEN n + 1 ELSE n

----------------------------------------------------------------------------
(* thermal_rating, statement by statement *)

\* the guard placed after the heat-balance terms
ThermalRating_Below_evaluating ==
    /\ pc = "start" /\ op = "thermal_rating"
    /\ Lt(arg.conductor_temperature, env.ambient_temperature)
    /\ terms' = [qc |-> tr_qc(env, arg.conductor_temperature),
                 qr |-> tr_qr(env, arg.conductor_temperature),
                 qs |-> tr_qs(env),
                 r  |-> tr_r(env, arg.conductor_temperature)]
    /\ heat_evals' = heat_evals + 1
    /\ result' = Zero
    /\ pc' = "done"
    /\ UNCHANGED <<op, env, arg, chained, lower_bound, upper_bound, target_y, n_grow,
                   n_bisect, final_temperature, n_steps,
                   wind_angle_deg_limited>>

\* if conductor_temperature < ambient_temperature { return 0.0; }
ThermalRating_Below ==
    /\ pc = "start" /\ op = "thermal_rating"
    /\ Lt(arg.conductor_temperature, env.ambient_temperature)
    /\ result' = Zero
    /\ pc' = "done"
    /\ UNCHANGED <<op, env, arg, chained, terms, heat_evals, lower_bound, upper_bound,
                   target_y, n_grow, n_bisect, final_temperature, n_steps,
                   wind_angle_deg_limited>>

\* let qc = ...; let qr = ...; let qs = ...; let r = ...;
ThermalRating_Terms ==
    /\ pc = "start" /\ op = "thermal_rating"
    /\ ~Lt(arg.conductor_temperature, env.ambient_temperature)
    /\ terms' = [qc |-> tr_qc(env, arg.conductor_temperature),
                 qr |-> tr_qr(env, arg.conductor_temperature),
                 qs |-> tr_qs(env),
                 r  |-> tr_r(env, arg.conductor_temperature)]
    /\ heat_evals' = heat_evals + 1
    /\ pc' = "clamp"
    /\ UNCHANGED <<op, env, arg, chained, lower_bound, upper_bound, target_y, n_grow,
                   n_bisect, final_temperature, n_steps, result,
                   wind_angle_deg_limited>>

\* if qc + qr - qs < 0 { return 0.0; }
ThermalRating_Clamp ==
    /\ pc = "clamp" /\ op = "thermal_rating"
    /\ Lt(NetLoss(terms.qc, terms.qr, terms.qs), Zero)
    /\ result' = RatingOf(terms.qc, terms.qr, terms.qs, terms.r)
    /\ pc' = "done"
    /\ UNCHANGED <<op, env, arg, chained, terms, heat_evals, lower_bound, upper_bound,
                   target_y, n_grow, n_bisect, final_temperature, n_steps,
                   wind_angle_deg_limited>>

\* ((qc + qr - qs) / r).powf(0.5)
ThermalRating_Root ==
    /\ pc = "clamp" /\ op = "thermal_rating"
    /\ ~Lt(NetLoss(terms.qc, terms.qr, terms.qs), Zero)
    /\ result' = RatingOf(terms.qc, terms.qr, terms.qs, terms.r)
    /\ pc' = "done"
    /\ UNCHANGED <<op, env, arg, chained, terms, heat_evals, lower_bound, upper_bound,
                   target_y, n_grow, n_bisect, final_temperature, n_steps,
                   wind_angle_deg_limited>>

\* main: the rating is passed to calculated_temperature as its current
Main_Feed ==
    /\ pc = "done" /\ op = "thermal_rating" /\ ~chained
    /\ op' = "calculated_temperature"
    /\ arg' = [arg EXCEPT !.current = result]
    /\ chained' = TRUE
    /\ pc' = "start"
    /\ result' = NaN
    /\ UNCHANGED <<env, terms, heat_evals, lower_bound, upper_bound, target_y, n_grow,
                   n_bisect, final_temperature, n_steps,
                   wind_angle_deg_limited>>

----------------------------------------------------------------------------
(* calculated_temperature *)

\* the function searched: thermal_rating at temperature x
ct_y(x) == thermal_rating(env, x)

\* the expansion loop never entered
ct_grow_cond_never == FALSE

\* while thermal_rating(.., upper_bound, ..) < target_y && upper_bound < f64::MAX / 2.0
ct_grow_cond == Lt(ct_y(upper_bound), target_y) /\ Lt(upper_bound, HalfMax)

\* while upper_bound - lower_bound > tolerance
ct_bisect_cond == Gt(Sub(upper_bound, lower_bound), arg.tolerance)

\* (lower_bound + upper_bound) / 2.0
ct_mid == Div(Add(lower_bound, upper_bound), FInt(2))

\* if mid_y < target_y { lower_bound = mid; } else { upper_bound = mid; }
ct_lower_moves == Lt(ct_y(ct_mid), target_y)

\* if current < 0.0 { return 0.0; }
CalculatedTemperature_Negative ==
    /\ pc = "start" /\ op = "calculated_temperature"
    /\ Lt(arg.current, Zero)
    /\ result' = Zero
    /\ pc' = "done"
    /\ UNCHANGED <<op, env, arg, chained, terms, heat_evals, lower_bound, upper_bound,
                   target_y, n_grow, n_bisect, final_temperature, n_steps,
                   wind_angle_deg_limited>>

CalculatedTemperature_Init ==
    /\ pc = "start" /\ op = "calculated_temperature"
    /\ ~Lt(arg.current, Zero)
    /\ lower_bound' = env.ambient_temperature
    /\ upper_bound' = FInt(CT_UPPER)
    /\ target_y' = arg.current
    /\ pc' = "grow"
    /\ UNCHANGED <<op, env, arg, chained, terms, heat_evals, n_grow, n_bisect,
                   final_temperature, n_steps, result,
                   wind_angle_deg_limited>>

\* upper_bound *= 2.0
CalculatedTemperature_Grow ==
    /\ pc = "grow" /\ op = "calculated_temperature"
    /\ ct_grow_cond
    /\ upper_bound' = Mul(upper_bound, FInt(2))
    /\ n_grow' = Count(n_grow)
    /\ UNCHANGED <<op, env, arg, pc, chained, terms, heat_evals, lower_bound, target_y,
                   n_bisect, final_temperature, n_steps, result,
                   wind_angle_deg_limited>>

CalculatedTemperature_GrowEnd ==
    /\ pc = "grow" /\ op = "calculated_temperature"
    /\ ~ct_grow_cond
    /\ pc' = "bisect"
    /\ UNCHANGED <<op, env, arg, chained, terms, heat_evals, lower_bound, upper_bound,
                   target_y, n_grow, n_bisect, final_temperature, n_steps, result,
                   wind_angle_deg_limited>>

CalculatedTemperature_Bisect ==
    /\ pc = "bisect" /\ op = "calculated_temperature"
    /\ ct_bisect_cond
    /\ IF ct_lower_moves
       THEN lower_bound' = ct_mid /\ upper_bound' = upper_bound
       ELSE upper_bound' = ct_mid /\ lower_bound' = lower_bound
    /\ n_bisect' = Count(n_bisect)
    /\ UNCHANGED <<op, env, arg, pc, chained, terms, heat_evals, target_y, n_grow,
                   final_temperature, n_steps, result,
                   wind_angle_deg_limited>>

\* (lower_bound + upper_bound) / 2.0
CalculatedTemperature_Return ==
    /\ pc = "bisect" /\ op = "calculated_temperature"
    /\ ~ct_bisect_cond
    /\ result' = ct_mid
    /\ pc' = "done"
    /\ UNCHANGED <<op, env, arg, chained, terms, heat_evals, lower_bound, upper_bound,
                   target_y, n_grow, n_bisect, final_temperature, n_steps,
                   wind_angle_deg_limited>>

\* calculated_temperature (B): the expansion loop, the bisection loop and the
\* function, for the calls on which the loops end
RECURSIVE ct_expand(_, _, _)
ct_expand(a, upper, target) ==
    IF Lt(thermal_rating(a, upper), target) /\ Lt(upper, HalfMax)
    THEN ct_expand(a, Mul(upper, FInt(2)), target)
    ELSE upper

RECURSIVE ct_search(_, _, _, _, _)
ct_search(a, lower, upper, target, tolerance) ==
    IF Gt(Sub(upper, lower), tolerance)
    THEN IF Lt(thermal_rating(a, Div(Add(lower, upper), FInt(2))), target)
         THEN ct_search(a, Div(Add(lower, upper), FInt(2)), upper, target, tolerance)
         ELSE ct_search(a, lower, Div(Add(lower, upper), FInt(2)), target, tolerance)
    ELSE Div(Add(lower, upper), FInt(2))

calculated_temperature(a, current, tolerance) ==
    IF Lt(current, Zero) THEN Zero
    ELSE ct_search(a, a.ambient_temperature, ct_expand(a, FInt(CT_UPPER), current), current,
                   tolerance)

----------------------------------------------------------------------------
(* conductor_temperature_rise *)

\* if conductor_temperature < ambient_temperature { return 0.0; }
TemperatureRise_Below ==
    /\ pc = "start" /\ op = "conductor_temperature_rise"
    /\ Lt(arg.conductor_temperature, env.ambient_temperature)
    /\ result' = Zero
    /\ pc' = "done"
    /\ UNCHANGED <<op, env, arg, chained, terms, heat_evals, lower_bound, upper_bound,
                   target_y, n_grow, n_bisect, final_temperature, n_steps,
                   wind_angle_deg_limited>>

\* let mut final_temperature = conductor_temperature;
TemperatureRise_Init ==
    /\ pc = "start" /\ op = "conductor_temperature_rise"
    /\ ~Lt(arg.conductor_temperature, env.ambient_temperature)
    /\ final_temperature' = arg.conductor_temperature
    /\ pc' = "loop"
    /\ UNCHANGED <<op, env, arg, chained, terms, heat_evals, lower_bound, upper_bound,
                   target_y, n_grow, n_bisect, n_steps, result,
                   wind_angle_deg_limited>>

\* the range taken one too long
rise_loop_cond_inclusive == n_steps <= arg.steps

\* for _ in 0..steps
rise_loop_cond == n_steps < arg.steps

\* for _ in 0..steps { ...; final_temperature += delta_t; }
TemperatureRise_Step ==
    /\ pc = "loop" /\ op = "conductor_temperature_rise"
    /\ rise_loop_cond
    /\ final_temperature' = EulerStep(env, final_temperature, arg.current, arg.time_step)
    /\ n_steps' = n_steps + 1
    /\ heat_evals' = heat_evals + 1
    /\ UNCHANGED <<op, env, arg, pc, chained, terms, lower_bound, upper_bound, target_y,
                   n_grow, n_bisect, result,
                   wind_angle_deg_limited>>

\* final_temperature - conductor_temperature
TemperatureRise_Return ==
    /\ pc = "loop" /\ op = "conductor_temperature_rise"
    /\ ~rise_loop_cond
    /\ result' = Sub(final_temperature, arg.conductor_temperature)
    /\ pc' = "done"
    /\ UNCHANGED <<op, env, arg, chained, terms, heat_evals, lower_bound, upper_bound,
                   target_y, n_grow, n_bisect, final_temperature, n_steps,
                   wind_angle_deg_limited>>

----------------------------------------------------------------------------
(* transient_rating *)

\* the function searched: conductor_temperature_rise at current x
xr_y(x) == conductor_temperature_rise(env, arg.conductor_temperature, x, arg.time_step,
                                      arg.steps)

\* the expansion loop without the cap
xr_grow_cond_uncapped == Lt(xr_y(upper_bound), target_y)

\* while conductor_temperature_rise(.., upper_bound, ..) < target_y && upper_bound < f64::MAX / 2.0
xr_grow_cond == Lt(xr_y(upper_bound), target_y) /\ Lt(upper_bound, HalfMax)

\* the loop entered also on a bracket exactly as wide as the tolerance
xr_bisect_cond_inclusive == Ge(Sub(upper_bound, lower_bound), arg.tolerance)

\* while upper_bound - lower_bound > tolerance
xr_bisect_cond == Gt(Sub(upper_bound, lower_bound), arg.tolerance)

\* (lower_bound + upper_bound) / 2.0
xr_mid == Div(Add(lower_bound, upper_bound), FInt(2))

xr_lower_moves == Lt(xr_y(xr_mid), target_y)

\* the guard left out: the search runs on a negative target
TransientRating_Below_searching ==
    /\ pc = "start" /\ op = "transient_rating"
    /\ Lt(arg.conductor_temperature_max, arg.conductor_temperature)
    /\ lower_bound' = Zero
    /\ upper_bound' = FInt(XR_UPPER)
    /\ target_y' = Sub(arg.conductor_temperature_max, arg.conductor_temperature)
    /\ pc' = "grow"
    /\ UNCHANGED <<op, env, arg, chained, terms, heat_evals, n_grow, n_bisect,
                   final_temperature, n_steps, result,
                   wind_angle_deg_limited>>

\* if conductor_temperature_max < conductor_temperature { return 0.0; }
TransientRating_Below ==
    /\ pc = "start" /\ op = "transient_rating"
    /\ Lt(arg.conductor_temperature_max, arg.conductor_temperature)
    /\ result' = Zero
    /\ pc' = "done"
    /\ UNCHANGED <<op, env, arg, chained, terms, heat_evals, lower_bound, upper_bound,
                   target_y, n_grow, n_bisect, final_temperature, n_steps,
                   wind_angle_deg_limited>>

TransientRating_Init ==
    /\ pc = "start" /\ op = "transient_rating"
    /\ ~Lt(arg.conductor_temperature_max, arg.conductor_temperature)
    /\ lower_bound' = Zero
    /\ upper_bound' = FInt(XR_UPPER)
    /\ target_y' = Sub(arg.conductor_temperature_max, arg.conductor_temperature)
    /\ pc' = "grow"
    /\ UNCHANGED <<op, env, arg, chained, terms, heat_evals, n_grow, n_bisect,
                   final_temperature, n_steps, result,
                   wind_angle_deg_limited>>

TransientRating_Grow ==
    /\ pc = "grow" /\ op = "transient_rating"
    /\ xr_grow_cond
    /\ upper_bound' = Mul(upper_bound, FInt(2))
    /\ n_grow' = Count(n_grow)
    /\ UNCHANGED <<op, env, arg, pc, chained, terms, heat_evals, lower_bound, target_y,
                   n_bisect, final_temperature, n_steps, result,
                   wind_angle_deg_limited>>

TransientRating_GrowEnd ==
    /\ pc = "grow" /\ op = "transient_rating"
    /\ ~xr_grow_cond
    /\ pc' = "bisect"
    /\ UNCHANGED <<op, env, arg, chained, terms, heat_evals, lower_bound, upper_bound,
                   target_y, n_grow, n_bisect, final_temperature, n_steps, result,
                   wind_angle_deg_limited>>

TransientRating_Bisect ==
    /\ pc = "bisect" /\ op = "transient_rating"
    /\ xr_bisect_cond
    /\ IF xr_lower_moves
       THEN lower_bound' = xr_mid /\ upper_bound' = upper_bound
       ELSE upper_bound' = xr_mid /\ lower_bound' = lower_bound
    /\ n_bisect' = Count(n_bisect)
    /\ UNCHANGED <<op, env, arg, pc, chained, terms, heat_evals, target_y, n_grow,
                   final_temperature, n_steps, result,
                   wind_angle_deg_limited>>

TransientRating_Return ==
    /\ pc = "bisect" /\ op = "transient_rating"
    /\ ~xr_bisect_cond
    /\ result' = xr_mid
    /\ pc' = "done"
    /\ UNCHANGED <<op, env, arg, chained, terms, heat_evals, lower_bound, upper_bound,
                   target_y, n_grow, n_bisect, final_temperature, n_steps,
                   wind_angle_deg_limited>>

----------------------------------------------------------------------------

Next ==
    \/ ThermalRating_Below \/ ThermalRating_Terms \/ ThermalRating_Clamp
    \/ ThermalRating_Root \/ Main_Feed
    \/ CalculatedTemperature_Negative \/ CalculatedTemperature_Init
    \/ CalculatedTemperature_Grow \/ CalculatedTemperature_GrowEnd
    \/ CalculatedTemperature_Bisect \/ CalculatedTemperature_Return
    \/ TemperatureRise_Below \/ TemperatureRise_Init
    \/ TemperatureRise_Step \/ TemperatureRise_Return
    \/ TransientRating_Below \/ TransientRating_Init
    \/ TransientRating_Grow \/ TransientRating_GrowEnd
    \/ TransientRating_Bisect \/ TransientRating_Return

Spec == Init /\ [][Next]_vars

----------------------------------------------------------------------------
(* convective_heat_loss called on its own, over the wind angles *)

\* The wind angles of the calls are the multiples of 10 degrees up to this many
\* tens, of either sign.
MaxAngleTens == 36

WindAngles == {FInt(10 * k) : k \in (0 - MaxAngleTens)..MaxAngleTens}

WindInit ==
    /\ \E w \in WindAngles : env = [EnvDriver EXCEPT !.wind_angle_deg = w]
    /\ op = "convective_heat_loss"
    /\ \E t \in {FInt(40), FInt(100)} : arg = [NoArg EXCEPT !.conductor_temperature = t]
    /\ pc = "start"
    /\ chained = FALSE
    /\ terms = NoTerms
    /\ heat_evals = 0
    /\ lower_bound = Zero /\ upper_bound = Zero /\ target_y = Zero
    /\ n_grow = 0 /\ n_bisect = 0
    /\ final_temperature = Zero
    /\ n_steps = 0
    /\ result = NaN
    /\ wind_angle_deg_limited = NaN

\* let wind_angle_deg_limited = 90.0 - (wind_angle_deg % 180.0 - 90.0).abs();
ConvectiveHeatLoss_Limit ==
    /\ pc = "start" /\ op = "convective_heat_loss"
    /\ wind_angle_deg_limited' = wind_angle_limit(env.wind_angle_deg)
    /\ pc' = "limited"
    /\ UNCHANGED <<op, env, arg, chained, terms, heat_evals, lower_bound, upper_bound,
                   target_y, n_grow, n_bisect, final_temperature, n_steps, result>>

\* the rest of convective_heat_loss, from the limited angle
ConvectiveHeatLoss_Return ==
    /\ pc = "limited" /\ op = "convective_heat_loss"
    /\ result' = qc_film(env.ambient_temperature, env.wind_speed, env.elevation,
                         arg.conductor_temperature, env.diameter, wind_angle_deg_limited,
                         Div(Add(arg.conductor_temperature, env.ambient_temperature), FInt(2)))
    /\ pc' = "done"
    /\ UNCHANGED <<op, env, arg, chained, terms, heat_evals, lower_bound, upper_bound,
                   target_y, n_grow, n_bisect, final_temperature, n_steps,
                   wind_angle_deg_limited>>

WindNext == ConvectiveHeatLoss_Limit \/ ConvectiveHeatLoss_Return

WindSpec == WindInit /\ [][WindNext]_vars

----------------------------------------------------------------------------
(* Properties *)

IsSearch == op \in {"calculated_temperature", "transient_rating"}

\* the search was not turned away by its guard
SearchAccepted ==
    \/ op = "calculated_temperature" /\ ~Lt(arg.current, Zero)
    \/ op = "transient_rating" /\ ~Lt(arg.conductor_temperature_max, arg.conductor_temperature)

\* the function searched, the first lower bound and the first upper bound
SearchY(x) == IF op = "calculated_temperature" THEN ct_y(x) ELSE xr_y(x)
SearchLower0 == IF op = "calculated_temperature" THEN env.ambient_temperature ELSE Zero
SearchUpper0 == IF op = "calculated_temperature" THEN CT_UPPER ELSE XR_UPPER
\* the upper bound after n_grow doublings
SearchUpperGrown == RoundTo(1, SearchUpper0, n_grow, FALSE)

(* C1: for both searches, when f(lower_0) <= target and the target is       *)
(* reached below the cap (the expansion ends with f(upper) >= target), a     *)
(* search that returns leaves a bracket no wider than tolerance that still   *)
(* holds a crossing of the target, f(lower) <= target <= f(upper) (for a     *)
(* monotone f, the root x* with lower <= x* <= upper), and returns a value   *)
(* in it.                                                                    *)
C1_RootWithinTolerance ==
    (/\ pc = "done" /\ IsSearch /\ SearchAccepted
     /\ Le(SearchY(SearchLower0), target_y)
     /\ Ge(SearchY(SearchUpperGrown), target_y)) =>
        /\ Le(Sub(upper_bound, lower_bound), arg.tolerance)
        /\ Le(SearchY(lower_bound), target_y)
        /\ Ge(SearchY(upper_bound), target_y)
        /\ Le(lower_bound, result) /\ Le(result, upper_bound)

----------------------------------------------------------------------------

\* calculated_temperature has returned from a search
TemperatureFound == pc = "done" /\ op = "calculated_temperature" /\ ~Lt(arg.current, Zero)

\* main's two calls have returned: arg.conductor_temperature went into
\* thermal_rating, its rating into calculated_temperature
RoundTripDone == TemperatureFound /\ chained

\* C2 as stated: from the rating of any T >= ambient the solver returns T to
\* within tolerance.
C2_RoundTripEveryTemperature ==
    (RoundTripDone /\ Ge(arg.conductor_temperature, env.ambient_temperature)) =>
        Le(Abs(Sub(result, arg.conductor_temperature)), arg.tolerance)

(* C2: for every target current >= 0 the temperature returned has the target *)
(* between the ratings a tolerance below and a tolerance above it; and from   *)
(* the rating of a temperature T, when that rating is positive, the solver    *)
(* returns T to within tolerance.                                            *)
C2_RoundTrip ==
    /\ TemperatureFound =>
            /\ Le(ct_y(Sub(result, arg.tolerance)), target_y)
            /\ Ge(ct_y(Add(result, arg.tolerance)), target_y)
    /\ (RoundTripDone /\ Gt(arg.current, Zero)) =>
            Le(Abs(Sub(result, arg.conductor_temperature)), arg.tolerance)

C2_Witness ==
    /\ RoundTripDone /\ Gt(arg.current, Zero)
    /\ arg.tolerance = FInt(1) /\ n_grow > 0 /\ n_bisect > 2

----------------------------------------------------------------------------

\* thermal_rating has returned
RatingDone == pc = "done" /\ op = "thermal_rating"

(* C3: for a conductor temperature below ambient thermal_rating returns      *)
(* exactly 0, whatever the other arguments, and no heat-balance term has     *)
(* been evaluated when it returns.                                           *)
C3_BelowAmbientIsZero ==
    (RatingDone /\ Lt(arg.conductor_temperature, env.ambient_temperature)) =>
        /\ result = Zero
        /\ heat_evals = 0
        /\ terms = NoTerms

C3_Witness ==
    /\ RatingDone /\ Lt(arg.conductor_temperature, env.ambient_temperature)
    /\ env = EnvDriver /\ result = Zero

----------------------------------------------------------------------------

\* the terms of the heat balance at the conductor temperature of the call
TermsAtCall ==
    [qc |-> tr_qc(env, arg.conductor_temperature), qr |-> tr_qr(env, arg.conductor_temperature),
     qs |-> tr_qs(env), r |-> tr_r(env, arg.conductor_temperature)]

(* C4: for a conductor temperature at or above ambient, thermal_rating       *)
(* returns exactly 0 when qc + qr - qs is negative and the square root of    *)
(* (qc + qr - qs) / r otherwise, the terms being those of the heat balance   *)
(* at that temperature; when r is positive the root is not taken of a         *)
(* negative number: the result is a number and is >= 0.                       *)
C4_ClampedRating ==
    (RatingDone /\ ~Lt(arg.conductor_temperature, env.ambient_temperature)) =>
        /\ terms = TermsAtCall
        /\ Lt(Sub(Add(terms.qc, terms.qr), terms.qs), Zero) => result = Zero
        /\ ~Lt(Sub(Add(terms.qc, terms.qr), terms.qs), Zero) =>
               result = Sqrt(Div(Sub(Add(terms.qc, terms.qr), terms.qs), terms.r))
        /\ Gt(terms.r, Zero) =>
               /\ ~IsNaN(result) /\ Ge(result, Zero)
               /\ ~Lt(Sub(Add(terms.qc, terms.qr), terms.qs), Zero) =>
                      ~Lt(Div(Sub(Add(terms.qc, terms.qr), terms.qs), terms.r), Zero)

\* the clamp has acted: solar gain above the losses, at a temperature above ambient
C4_Witness ==
    /\ RatingDone /\ Gt(arg.conductor_temperature, env.ambient_temperature)
    /\ Lt(Sub(Add(terms.qc, terms.qr), terms.qs), Zero)
    /\ Gt(terms.r, Zero) /\ result = Zero

----------------------------------------------------------------------------

\* the call is one a guard turns away
GuardedCall ==
    \/ op = "calculated_temperature" /\ Lt(arg.current, Zero)
    \/ op = "conductor_temperature_rise"
          /\ Lt(arg.conductor_temperature, env.ambient_temperature)
    \/ op = "transient_rating"
          /\ Lt(arg.conductor_temperature_max, arg.conductor_temperature)

(* C5: calculated_temperature with current < 0, conductor_temperature_rise   *)
(* with an initial temperature below ambient and transient_rating with       *)
(* conductor_temperature_max below conductor_temperature return 0, and at no *)
(* point of such a call has a bracket been set or grown, a bisection step    *)
(* been made or an Euler step been taken.                                    *)
C5_GuardsShortCircuit ==
    GuardedCall =>
        /\ pc \in {"start", "done"}
        /\ pc = "done" => result = Zero
        /\ n_grow = 0 /\ n_bisect = 0 /\ n_steps = 0
        /\ lower_bound = Zero /\ upper_bound = Zero /\ final_temperature = Zero

C5_Witness ==
    /\ pc = "done" /\ op = "transient_rating"
    /\ Lt(arg.conductor_temperature_max, arg.conductor_temperature)
    /\ result = Zero

----------------------------------------------------------------------------

\* the bisection loop of the search the call is in
SearchBisectCond == IF op = "calculated_temperature" THEN ct_bisect_cond ELSE xr_bisect_cond
SearchMid == IF op = "calculated_temperature" THEN ct_mid ELSE xr_mid
SearchLowerMoves == IF op = "calculated_temperature" THEN ct_lower_moves ELSE xr_lower_moves

\* an iteration of the bisection loop that leaves the bracket as it is: the
\* loop condition is true before it and after it
BisectionStuck ==
    /\ IsSearch /\ pc = "bisect" /\ SearchBisectCond
    /\ IF SearchLowerMoves THEN SearchMid = lower_bound ELSE SearchMid = upper_bound

(* C6: the search always terminates: the expansion stops at the cap and the  *)
(* bisection that follows ends with upper - lower <= tolerance. A search     *)
(* that terminates never reaches an iteration of the bisection loop that      *)
(* leaves the bracket unchanged while its condition is true.                  *)
C6_SearchTerminates == ~BisectionStuck

----------------------------------------------------------------------------

\* the first bracket is no wider than the tolerance
SearchConverged0 == Le(Sub(FInt(SearchUpper0), SearchLower0), arg.tolerance)
SearchMid0 == Div(Add(SearchLower0, FInt(SearchUpper0)), FInt(2))
SearchStarted == IsSearch /\ SearchAccepted /\ pc # "start"

\* C7 as stated: on a first bracket already within tolerance there is no
\* growth and no bisection, for every target.
C7_ConvergedBracketEveryTarget ==
    (SearchStarted /\ SearchConverged0) =>
        /\ n_grow = 0 /\ n_bisect = 0
        /\ pc = "done" => result = SearchMid0

(* C7: when the first bracket is already within tolerance and f at its upper *)
(* bound is not below the target, the search grows nothing, bisects nothing  *)
(* and returns the midpoint of that bracket.                                 *)
C7_ConvergedBracket ==
    (SearchStarted /\ SearchConverged0 /\ ~Lt(SearchY(FInt(SearchUpper0)), target_y)) =>
        /\ n_grow = 0 /\ n_bisect = 0
        /\ lower_bound = SearchLower0 /\ upper_bound = FInt(SearchUpper0)
        /\ pc = "done" => result = SearchMid0

C7_Witness ==
    /\ SearchStarted /\ SearchConverged0 /\ pc = "done"
    /\ op = "transient_rating" /\ Gt(target_y, Zero)
    /\ ~Lt(SearchY(FInt(SearchUpper0)), target_y)
    /\ result = SearchMid0

----------------------------------------------------------------------------

\* conductor_temperature_rise is past its guard
RiseRunning ==
    /\ op = "conductor_temperature_rise" /\ pc \in {"loop", "done"}
    /\ ~Lt(arg.conductor_temperature, env.ambient_temperature)
RiseDone == RiseRunning /\ pc = "done"

\* the rise of the same call made with current c
RiseWith(c) ==
    conductor_temperature_rise(env, arg.conductor_temperature, c, arg.time_step, arg.steps)

\* C8 as stated: the rise is non-decreasing in the current, for every pair of
\* currents, every step count and every step duration.
C8_RiseMonotoneEveryCall ==
    RiseDone => \A c2 \in Currents : Le(arg.current, c2) => Le(result, RiseWith(c2))

(* C8: over at most one step, of any duration, and with a positive           *)
(* resistance at the initial temperature, the rise is non-decreasing in the  *)
(* current over the currents >= 0.                                           *)
C8_RiseMonotone ==
    (RiseDone /\ arg.steps <= 1 /\ Ge(arg.current, Zero)
        /\ Gt(tr_r(env, arg.conductor_temperature), Zero)) =>
        \A c2 \in Currents : Le(arg.current, c2) => Le(result, RiseWith(c2))

C8_Witness ==
    /\ RiseDone /\ arg.steps = 1 /\ arg.current = FInt(1000)
    /\ Gt(tr_r(env, arg.conductor_temperature), Zero)
    /\ Lt(result, RiseWith(FInt(2000)))

----------------------------------------------------------------------------

\* the temperature the steady-state solver reports for no current
ZeroCurrentTemperature == calculated_temperature(env, Zero, FInt(1))

(* C9: with no current and the driver's 60 s step, the stepper settles at    *)
(* the temperature calculated_temperature reports for no current: its        *)
(* temperature is never farther from that value than the temperature it      *)
(* started from, or than the solver's tolerance.                             *)
C9_SettlesAtSolverTemperature ==
    (RiseRunning /\ arg.current = Zero /\ arg.time_step = FInt(60)) =>
        Le(Abs(Sub(final_temperature, ZeroCurrentTemperature)),
           Max(Abs(Sub(arg.conductor_temperature, ZeroCurrentTemperature)), FInt(1)))

----------------------------------------------------------------------------

(* C10: conductor_temperature_rise makes exactly `steps` Euler updates, one  *)
(* evaluation of the heat balance each, every one from the temperature the   *)
(* one before it produced, and returns the final temperature minus the       *)
(* initial one.                                                              *)
C10_ExactlyStepsUpdates ==
    RiseRunning =>
        /\ n_steps <= arg.steps
        /\ heat_evals = n_steps
        /\ final_temperature =
               EulerLoop(env, arg.conductor_temperature, arg.current, arg.time_step, n_steps)
        /\ pc = "done" =>
               /\ n_steps = arg.steps
               /\ result = Sub(final_temperature, arg.conductor_temperature)

C10_Witness ==
    /\ RiseDone /\ arg.steps = MaxSteps /\ n_steps = MaxSteps
    /\ final_temperature # arg.conductor_temperature
    /\ result = Sub(final_temperature, arg.conductor_temperature)

----------------------------------------------------------------------------

(* C11: in both searches lower_bound <= upper_bound in every state from the  *)
(* initialisation of the bracket on, for every accepted input, and the       *)
(* value returned is not below the first lower bound.                        *)
C11_BracketOrdered ==
    SearchStarted =>
        /\ Le(lower_bound, upper_bound)
        /\ pc = "done" => Ge(result, SearchLower0)

----------------------------------------------------------------------------
(* The generic root-finder of the specification, section 4.1: one step of    *)
(* it from the bracket [lo, hi] in phase "grow" or "bisect", for growth      *)
(* factor g and magnitude cap; f_hi and f_mid are the values of the function *)
(* at hi and at the midpoint of the bracket.                                 *)

GenericMid(lo, hi) == Div(Add(lo, hi), FInt(2))

GenericStep(f_hi, f_mid, target, tolerance, g, cap, phase, lo, hi) ==
    IF phase = "grow"
    THEN IF Lt(f_hi, target) /\ Lt(hi, cap)
         THEN [phase |-> "grow", lo |-> lo, hi |-> Mul(hi, g), out |-> NaN]
         ELSE [phase |-> "bisect", lo |-> lo, hi |-> hi, out |-> NaN]
    ELSE IF Gt(Sub(hi, lo), tolerance)
         THEN IF Lt(f_mid, target)
              THEN [phase |-> "bisect", lo |-> GenericMid(lo, hi), hi |-> hi, out |-> NaN]
              ELSE [phase |-> "bisect", lo |-> lo, hi |-> GenericMid(lo, hi), out |-> NaN]
         ELSE [phase |-> "done", lo |-> lo, hi |-> hi, out |-> GenericMid(lo, hi)]

\* the instances the two searches are said to be
GenericTemperatureStep ==
    GenericStep(ct_y(upper_bound), ct_y(GenericMid(lower_bound, upper_bound)), arg.current,
                arg.tolerance, FInt(2), HalfMax, pc, lower_bound, upper_bound)
GenericRatingStep ==
    GenericStep(xr_y(upper_bound), xr_y(GenericMid(lower_bound, upper_bound)),
                Sub(arg.conductor_temperature_max, arg.conductor_temperature),
                arg.tolerance, FInt(2), HalfMax, pc, lower_bound, upper_bound)

\* what a search holds of the generic procedure's state
SearchState == [phase |-> pc, lo |-> lower_bound, hi |-> upper_bound, out |-> result]

(* C12: calculated_temperature starts from the bracket [ambient_temperature, *)
(* 256] and transient_rating from [0, 4096], and from there every step of    *)
(* each is the step of the generic root-finder for its f, its target, growth *)
(* factor 2 and cap MAX/2: the same brackets in the same order and the same  *)
(* value returned.                                                           *)
C12_SearchesAreGeneric ==
    [][ /\ (SearchAccepted /\ pc = "start") =>
               SearchState' = [phase |-> "grow", lo |-> SearchLower0,
                               hi |-> FInt(SearchUpper0), out |-> NaN]
        /\ (op = "calculated_temperature" /\ pc \in {"grow", "bisect"}) =>
               SearchState' = GenericTemperatureStep
        /\ (op = "transient_rating" /\ pc \in {"grow", "bisect"}) =>
               SearchState' = GenericRatingStep ]_vars

\* a rating search that ran into the cap and came back from it by bisection
C12_Witness ==
    /\ op = "transient_rating" /\ pc = "bisect"
    /\ Ge(upper_bound, HalfMax) /\ n_grow > 0 /\ n_bisect > 0

----------------------------------------------------------------------------

(* C13: for a tolerance > 0 the bisection loop ends within                   *)
(* ceil(log2((upper_0 - lower_0) / tolerance)) iterations: the k-th          *)
(* iteration is made only if the first width is above tolerance * 2^(k-1).   *)
C13_BisectionBound ==
    (SearchStarted /\ Gt(arg.tolerance, Zero) /\ n_bisect >= 1) =>
        Gt(Sub(SearchUpperGrown, SearchLower0),
           Mul(arg.tolerance, RoundTo(1, 1, n_bisect - 1, FALSE)))

----------------------------------------------------------------------------

\* the reflection of a whole number of degrees into 0..90
Reflect(d) == IF AbsI(d) % 180 <= 90 THEN AbsI(d) % 180 ELSE 180 - (AbsI(d) % 180)

(* C14: for every wind angle, of any sign and magnitude, the angle           *)
(* convective_heat_loss computes with lies in [0, 90] and is the reflection  *)
(* of the wind angle into that range.                                        *)
C14_WindAngleReflected ==
    (op = "convective_heat_loss" /\ pc \in {"limited", "done"}) =>
        /\ Ge(wind_angle_deg_limited, Zero) /\ Le(wind_angle_deg_limited, FInt(90))
        /\ wind_angle_deg_limited = FInt(Reflect(ToInt(env.wind_angle_deg)))

----------------------------------------------------------------------------

\* transient_rating from an initial temperature below ambient, for a maximum
\* temperature above the initial one
RiseAlwaysZero ==
    /\ op = "transient_rating"
    /\ Lt(arg.conductor_temperature, env.ambient_temperature)
    /\ Gt(arg.conductor_temperature_max, arg.conductor_temperature)
    /\ Gt(arg.tolerance, Zero)

(* C15: when transient_rating is called from an initial temperature below   *)
(* ambient for a maximum temperature above the initial one, the rise is 0    *)
(* for every trial current, the expansion ends at the cap, and the value     *)
(* returned is within tolerance of that final upper bound.                   *)
C15_ReturnsNearCap ==
    (RiseAlwaysZero /\ pc = "done") => Le(Abs(Sub(upper_bound, result)), arg.tolerance)

----------------------------------------------------------------------------

(* C16: upper_bound is doubled only while it is below MAX/2: throughout the  *)
(* expansion it is its first value (256 or 4096) times a power of two and    *)
(* strictly below MAX, and when the expansion loop is left either            *)
(* f(upper_bound) >= target or MAX/2 <= upper_bound < MAX.                   *)
C16_ExpansionSafe ==
    SearchStarted =>
        /\ pc = "grow" =>
               /\ upper_bound = SearchUpperGrown
               /\ IsFin(upper_bound) /\ Lt(upper_bound, FMax)
        /\ (pc = "bisect" /\ n_bisect = 0) =>
               /\ upper_bound = SearchUpperGrown
               /\ \/ Ge(SearchY(upper_bound), target_y)
                  \/ Ge(upper_bound, HalfMax) /\ Lt(upper_bound, FMax)

====
